---- MODULE Spec2Model ----
(***************************************************************************)
(* Model of the MissaTech breach-analysis pipeline:                        *)
(*   src/src/data/database.py            the incident store                *)
(*   src/src/analysis/breach_analysis.py aggregation and risk scoring      *)
(*   src/src/models/risk_prediction.py   cost predictor, impact model,     *)
(*                                       cluster analyzer, run_all_models  *)
(*   src/main.py                         Pareto summary, interactive menu  *)
(*   src/src/dashboard/monitoring_dashboard.py  the datasets it holds      *)
(* Floating-point quantities are modelled as exact rationals <<n, d>>      *)
(* with d > 0 in lowest terms; money, days and record counts are integers. *)
(***************************************************************************)
EXTENDS Integers, Sequences, FiniteSets, TLC

VARIABLES store, agg, risk, corr, ctr, impact, predictor, cluster, records,
          artifact, rng, runs, pipeline, pareto, menu, summary, dash

vars ==
    <<store, agg, risk, corr, ctr, impact, predictor, cluster, records,
      artifact, rng, runs, pipeline, pareto, menu, summary, dash>>

(***************************************************************************)
(* Bounds of the model.                                                    *)
(***************************************************************************)
MaxRows == 3

MaxCoef == 1

MaxImprovement == 2

MaxRecords == 2

(***************************************************************************)
(* Exact rational arithmetic (the code's float64 values).                  *)
(***************************************************************************)
Abs(n) == IF n < 0 THEN -n ELSE n

RECURSIVE GCD(_, _)
GCD(a, b) == IF b = 0 THEN a ELSE GCD(b, a % b)

Rat(n, d) ==
    LET g == GCD(Abs(n), d)
    IN  <<n \div g, d \div g>>

RInt(n) == <<n, 1>>

RAdd(a, b) == Rat(a[1] * b[2] + b[1] * a[2], a[2] * b[2])

RSub(a, b) == Rat(a[1] * b[2] - b[1] * a[2], a[2] * b[2])

RMul(a, b) == Rat(a[1] * b[1], a[2] * b[2])

\* a / b for b > 0
RDiv(a, b) == Rat(a[1] * b[2], a[2] * b[1])

RLe(a, b) == a[1] * b[2] <= b[1] * a[2]

RMaxOf(S) == CHOOSE x \in S : \A y \in S : RLe(y, x)

RMinOf(S) == CHOOSE x \in S : \A y \in S : RLe(x, y)

Range(s) == {s[i] : i \in DOMAIN s}

\* every arrangement of the finite set S as a sequence without repetition
Orderings(S) ==
    {f \in [1..Cardinality(S) -> S] :
        \A i, j \in 1..Cardinality(S) : i # j => f[i] # f[j]}

(***************************************************************************)
(* The incident store: table breach_incidents, one record per row, in      *)
(* rowid order.                                                            *)
(***************************************************************************)
Schema ==
    {"system_name", "region", "attack_type", "data_sensitivity_level",
     "records_exposed", "estimated_cost_per_record_usd",
     "estimated_total_cost_usd", "detection_delay_days",
     "response_time_days", "notification_required"}

Incident(sys, reg, atk, sens, rec, cpr, cost, det, resp, notif) ==
    [system_name |-> sys, region |-> reg, attack_type |-> atk,
     data_sensitivity_level |-> sens, records_exposed |-> rec,
     estimated_cost_per_record_usd |-> cpr,
     estimated_total_cost_usd |-> cost, detection_delay_days |-> det,
     response_time_days |-> resp, notification_required |-> notif]

\* the incidents the bounded tables are built from
IncidentPool ==
    {Incident("Billing", "EU", "Phishing", 3, 2, 3, 6, 1, 2, 1),
     Incident("HR", "US", "Malware", 5, 4, 2, 9, 1, 1, 1),
     Incident("HR", "EU", "Phishing", 1, 0, 0, 0, 0, 0, 0),
     Incident("Billing", "EU", "Malware", 4, 1, 3, 3, 2, 0, 0),
     Incident("CRM", "US", "Phishing", 3, 2, 3, 6, 1, 2, 1)}

TablesUpTo(n) == UNION {[1..k -> IncidentPool] : k \in 0..n}

Tables == TablesUpTo(MaxRows)

\* 100 incidents: Billing 60 totalling 50,000,000 and HR 40 totalling 20,000,000
ScenarioTable ==
    [i \in 1..100 |->
        IF i % 5 < 3
        THEN Incident("Billing", "EU", "Phishing", 3, 10, 83333,
                      IF i = 1 THEN 833353 ELSE 833333, 5, 2, 1)
        ELSE Incident("HR", "US", "Malware", 2, 10, 50000, 500000, 5, 1, 0)]

\* the sum of a column, taken half by half
RECURSIVE SumField(_, _)
SumField(rows, f) ==
    IF rows = <<>> THEN 0
    ELSE IF Len(rows) = 1 THEN rows[1][f]
    ELSE SumField(SubSeq(rows, 1, Len(rows) \div 2), f)
            + SumField(SubSeq(rows, (Len(rows) \div 2) + 1, Len(rows)), f)

\* SQL AVG: the float quotient of the sum and the row count
AvgField(rows, f) == Rat(SumField(rows, f), Len(rows))

\* a component that has produced nothing
None == [kind |-> "none"]

\* the components not named in S are unused
IdleExcept(S) ==
    /\ IF "store" \in S THEN TRUE ELSE store = <<>>
    /\ IF "agg" \in S THEN TRUE ELSE agg = None
    /\ IF "risk" \in S THEN TRUE ELSE risk = None
    /\ IF "corr" \in S THEN TRUE ELSE corr = None
    /\ IF "ctr" \in S THEN TRUE ELSE ctr = None
    /\ IF "impact" \in S THEN TRUE ELSE impact = None
    /\ IF "predictor" \in S THEN TRUE ELSE predictor = None
    /\ IF "cluster" \in S THEN TRUE ELSE cluster = None
    /\ IF "records" \in S THEN TRUE ELSE records = None
    /\ IF "artifact" \in S THEN TRUE ELSE artifact = None
    /\ IF "rng" \in S THEN TRUE ELSE rng = 0
    /\ IF "runs" \in S THEN TRUE ELSE runs = <<>>
    /\ IF "pipeline" \in S THEN TRUE ELSE pipeline = None
    /\ IF "pareto" \in S THEN TRUE ELSE pareto = None
    /\ IF "menu" \in S THEN TRUE ELSE menu = None
    /\ IF "summary" \in S THEN TRUE ELSE summary = None
    /\ IF "dash" \in S THEN TRUE ELSE dash = None

\* mutant: the working frame is the caller's frame itself
DfCopy_SameObject(df) == [rows |-> df, own |-> FALSE]

\* df.copy(): the working frame is a new object holding the same rows
DfCopy(df) == [rows |-> df, own |-> TRUE]

\* the caller's frame once the working frame made from it has been written
\* and holds the rows written
CallerFrame(frame, working, written) ==
    IF working.own THEN frame ELSE written

(***************************************************************************)
(* cost_analysis_by_dimension: GROUP BY dimension ORDER BY total_cost DESC *)
(***************************************************************************)
\* The argument is pasted into the SQL text as it is.  Arguments modelled:
\* the fields of the schema, an identifier that names no column, and the
\* literal 1.
Arguments == Schema \cup {"no_such_field", "1"}

\* the statement compiles: the text is a column of the table or an
\* expression that names no column
Compiles(dimension) == dimension \in Schema \cup {"1"}

\* the value of the pasted expression on row r
DimensionValue(r, dimension) ==
    IF dimension \in Schema THEN r[dimension] ELSE 1

\* mutant: the first row of the table is filtered out of the grouping
DistinctValues_DropFirstRow(rows, dimension) ==
    {DimensionValue(rows[i], dimension) : i \in DOMAIN rows \ {1}}

DistinctValues(rows, dimension) ==
    {DimensionValue(rows[i], dimension) : i \in DOMAIN rows}

GroupRows(rows, dimension, v) ==
    SelectSeq(rows, LAMBDA r : DimensionValue(r, dimension) = v)

\* one result row of the SELECT list for the group whose key is v
AggregateRow(rows, dimension, v) ==
    LET g == GroupRows(rows, dimension, v)
    IN  [key |-> v,
         incident_count |-> Len(g),
         total_cost |-> SumField(g, "estimated_total_cost_usd"),
         avg_cost |-> AvgField(g, "estimated_total_cost_usd"),
         total_records |-> SumField(g, "records_exposed"),
         avg_detection_days |-> AvgField(g, "detection_delay_days"),
         avg_response_days |-> AvgField(g, "response_time_days")]

GroupByDimension(rows, dimension) ==
    {AggregateRow(rows, dimension, v) : v \in DistinctValues(rows, dimension)}

\* mutant: ORDER BY total_cost ASC
OrderedByTotalCostAsc(f) ==
    \A i \in 1..(Len(f) - 1) : f[i].total_cost <= f[i + 1].total_cost

\* ORDER BY total_cost DESC
OrderedByTotalCostDesc(f) ==
    \A i \in 1..(Len(f) - 1) : f[i].total_cost >= f[i + 1].total_cost

\* the row sequences the query may return: rows of equal total_cost come in
\* an order SQL leaves open
AggregateQuery(rows, dimension) ==
    {f \in Orderings(GroupByDimension(rows, dimension)) :
        OrderedByTotalCostDesc(f)}

\* a text that does not compile makes query raise (sqlite3's "no such
\* column", passed on by pandas as DatabaseError)
CostAnalysisByDimension(dimension) ==
    /\ IF Compiles(dimension)
       THEN \E rows \in AggregateQuery(store, dimension) :
               agg' = [kind |-> "rows", dimension |-> dimension,
                       rows |-> rows]
       ELSE agg' = [kind |-> "DatabaseError", dimension |-> dimension]
    /\ UNCHANGED <<store, risk, corr, ctr, impact, predictor,
                 cluster, records, artifact, rng, runs,
                   pipeline, pareto, menu, summary, dash>>

InitAgg ==
    /\ store \in Tables \cup {ScenarioTable}
    /\ IdleExcept({"store"})

NextAgg == \E dimension \in Arguments : CostAnalysisByDimension(dimension)

SpecAgg == InitAgg /\ [][NextAgg]_vars

\* C1: cost_analysis_by_dimension returns exactly one row per distinct value
\* of the dimension present in the table (none filtered out, none
\* duplicated) and the incident_count values sum to the number of incidents.
C1_OneRowPerValueCountsSum ==
    (agg.kind = "rows" /\ agg.dimension \in Schema) =>
        /\ {agg.rows[i].key : i \in DOMAIN agg.rows}
              = {store[i][agg.dimension] : i \in DOMAIN store}
        /\ \A i, j \in DOMAIN agg.rows :
              i # j => agg.rows[i].key # agg.rows[j].key
        /\ SumField(agg.rows, "incident_count") = Len(store)

C1_Witness ==
    /\ agg.kind = "rows"
    /\ agg.dimension \in Schema
    /\ Len(agg.rows) = 2
    /\ Len(store) = 3

\* C2: the rows come ordered by total_cost descending, each total_cost being
\* the sum of estimated_total_cost_usd over the row's group; for the
\* Billing 60 / 50,000,000 and HR 40 / 20,000,000 table the first row is
\* Billing with incident_count 60 and total_cost 50,000,000.
C2_OrderedByTotalCostDesc ==
    (agg.kind = "rows" /\ agg.dimension \in Schema) =>
        /\ \A i \in DOMAIN agg.rows :
              agg.rows[i].total_cost =
                  SumField(SelectSeq(store,
                               LAMBDA r : r[agg.dimension] = agg.rows[i].key),
                           "estimated_total_cost_usd")
        /\ \A i, j \in DOMAIN agg.rows :
              i < j => agg.rows[i].total_cost >= agg.rows[j].total_cost
        /\ (store = ScenarioTable /\ agg.dimension = "system_name") =>
              /\ agg.rows[1].key = "Billing"
              /\ agg.rows[1].incident_count = 60
              /\ agg.rows[1].total_cost = 50000000

C2_Witness ==
    /\ agg.kind = "rows"
    /\ store = ScenarioTable
    /\ agg.dimension = "system_name"
    /\ Len(agg.rows) = 2
    /\ agg.rows[2].total_cost = 20000000

\* C11: called with an argument that is not a field of the schema,
\* cost_analysis_by_dimension fails (InvalidDimension) and returns no rows.
C11_NonFieldArgumentFails ==
    (agg.kind # "none" /\ agg.dimension \notin Schema)
        => agg.kind = "DatabaseError"

(***************************************************************************)
(* risk_score_calculation                                                  *)
(***************************************************************************)
RiskKeys(rows) == {<<rows[i].system_name, rows[i].region>> : i \in DOMAIN rows}

\* one result row of GROUP BY system_name, region
RiskAggregateRow(rows, k) ==
    LET g == SelectSeq(rows,
                 LAMBDA r : r.system_name = k[1] /\ r.region = k[2])
    IN  [system_name |-> k[1],
         region |-> k[2],
         incident_frequency |-> RInt(Len(g)),
         total_cost |-> RInt(SumField(g, "estimated_total_cost_usd")),
         avg_sensitivity |-> AvgField(g, "data_sensitivity_level"),
         avg_detection |-> AvgField(g, "detection_delay_days"),
         total_records |-> RInt(SumField(g, "records_exposed"))]

\* the query has no ORDER BY: the groups come in an order SQL leaves open
RiskQuery(rows) ==
    Orderings({RiskAggregateRow(rows, k) : k \in RiskKeys(rows)})

Factors ==
    {"incident_frequency", "total_cost", "avg_sensitivity", "avg_detection",
     "total_records"}

\* mutant: a zero range defaults to 0 instead of 0.5
Normalize_ZeroRangeAsZero(df, col, i) ==
    LET column == {df[j][col] : j \in DOMAIN df}
        col_range == RSub(RMaxOf(column), RMinOf(column))
    IN  IF col_range = RInt(0)
        THEN RInt(0)
        ELSE RDiv(RSub(df[i][col], RMinOf(column)), col_range)

\* the normalised value of column col for row i of df
Normalize(df, col, i) ==
    LET column == {df[j][col] : j \in DOMAIN df}
        col_range == RSub(RMaxOf(column), RMinOf(column))
    IN  IF col_range = RInt(0)
        THEN Rat(1, 2)
        ELSE RDiv(RSub(df[i][col], RMinOf(column)), col_range)

WeightFrequency == Rat(2, 10)

\* mutant: a heavier cost weight
WeightCost_TooHeavy == Rat(4, 10)

WeightCost == Rat(3, 10)

WeightSensitivity == Rat(2, 10)

WeightDetection == Rat(15, 100)

WeightRecords == Rat(15, 100)

\* mutant: the frequency and cost weights exchanged
RiskScore_SwappedWeights(freq, cost, sens, det, rec) ==
    RMul(RAdd(RAdd(RAdd(RAdd(RMul(freq, WeightCost),
                             RMul(cost, WeightFrequency)),
                        RMul(sens, WeightSensitivity)),
                   RMul(det, WeightDetection)),
              RMul(rec, WeightRecords)),
         RInt(100))

\* the composite of the five normalised factors
RiskScore(freq, cost, sens, det, rec) ==
    RMul(RAdd(RAdd(RAdd(RAdd(RMul(freq, WeightFrequency),
                             RMul(cost, WeightCost)),
                        RMul(sens, WeightSensitivity)),
                   RMul(det, WeightDetection)),
              RMul(rec, WeightRecords)),
         RInt(100))

ScoredRow(df, i) ==
    LET freq == Normalize(df, "incident_frequency", i)
        cost == Normalize(df, "total_cost", i)
        sens == Normalize(df, "avg_sensitivity", i)
        det == Normalize(df, "avg_detection", i)
        rec == Normalize(df, "total_records", i)
    IN  [system_name |-> df[i].system_name,
         region |-> df[i].region,
         incident_frequency |-> df[i].incident_frequency,
         total_cost |-> df[i].total_cost,
         avg_sensitivity |-> df[i].avg_sensitivity,
         avg_detection |-> df[i].avg_detection,
         total_records |-> df[i].total_records,
         incident_frequency_norm |-> freq,
         total_cost_norm |-> cost,
         avg_sensitivity_norm |-> sens,
         avg_detection_norm |-> det,
         total_records_norm |-> rec,
         risk_score |-> RiskScore(freq, cost, sens, det, rec)]

Scored(df) == [i \in DOMAIN df |-> ScoredRow(df, i)]

\* mutant: ascending=True
SortedByRiskScoreAsc(f) ==
    \A i \in 1..(Len(f) - 1) : RLe(f[i].risk_score, f[i + 1].risk_score)

\* sort_values('risk_score', ascending=False)
SortedByRiskScoreDesc(f) ==
    \A i \in 1..(Len(f) - 1) : RLe(f[i + 1].risk_score, f[i].risk_score)

\* the default sort kind is not stable: rows of equal risk_score come out in
\* any order
SortValues(df) ==
    {f \in Orderings(Range(df)) : SortedByRiskScoreDesc(f)}

RiskScoreCalculation ==
    /\ \E df \in RiskQuery(store) :
          \E out \in SortValues(Scored(df)) :
             risk' = [kind |-> "rows", grouped |-> df, rows |-> out]
    /\ UNCHANGED <<store, agg, corr, ctr, impact, predictor,
                 cluster, records, artifact, rng, runs,
                   pipeline, pareto, menu, summary, dash>>

InitRisk ==
    /\ store \in Tables
    /\ IdleExcept({"store"})

NextRisk == RiskScoreCalculation

SpecRisk == InitRisk /\ [][NextRisk]_vars

Half == Rat(1, 2)

NormOf(row, col) ==
    CASE col = "incident_frequency" -> row.incident_frequency_norm
      [] col = "total_cost" -> row.total_cost_norm
      [] col = "avg_sensitivity" -> row.avg_sensitivity_norm
      [] col = "avg_detection" -> row.avg_detection_norm
      [] col = "total_records" -> row.total_records_norm

\* C3: every normalised factor of every (system_name, region) group lies in
\* [0,1], and a factor whose value is the same in all groups (max = min) is
\* normalised to exactly 0.5 in every group; with a single group all five
\* normalised factors are 0.5.
C3_NormalizedInUnitRangeOrHalf ==
    risk.kind = "rows" =>
        \A col \in Factors :
            /\ \A i \in DOMAIN risk.rows :
                  /\ RLe(RInt(0), NormOf(risk.rows[i], col))
                  /\ RLe(NormOf(risk.rows[i], col), RInt(1))
            /\ (\A i, j \in DOMAIN risk.rows :
                    risk.rows[i][col] = risk.rows[j][col])
                  => \A i \in DOMAIN risk.rows :
                        NormOf(risk.rows[i], col) = Half

\* three groups that all have the same avg_detection while their total_cost
\* differs
C3_Witness ==
    /\ risk.kind = "rows"
    /\ Len(risk.rows) = 3
    /\ \A i \in DOMAIN risk.rows : risk.rows[i].avg_detection_norm = Half
    /\ \E i, j \in DOMAIN risk.rows :
          /\ risk.rows[i].total_cost_norm = RInt(1)
          /\ risk.rows[j].total_cost_norm = RInt(0)

\* C4: every risk_score lies in [0,100] and the five weights of the
\* composite sum to exactly 1.
C4_ScoreInRangeWeightsSumToOne ==
    /\ RAdd(RAdd(RAdd(RAdd(WeightFrequency, WeightCost), WeightSensitivity),
                 WeightDetection), WeightRecords) = RInt(1)
    /\ risk.kind = "rows" =>
          \A i \in DOMAIN risk.rows :
              /\ RLe(RInt(0), risk.rows[i].risk_score)
              /\ RLe(risk.rows[i].risk_score, RInt(100))

C4_Witness ==
    /\ risk.kind = "rows"
    /\ \E i, j \in DOMAIN risk.rows :
          /\ risk.rows[i].risk_score = RInt(100)
          /\ risk.rows[j].risk_score = RInt(0)

\* C5: risk_score = 100 x (0.20 frequency + 0.30 cost + 0.20 sensitivity
\* + 0.15 detection + 0.15 records) of the row's normalised factors, i.e.
\* 20, 30, 20, 15 and 15 points per unit of the respective factor.
C5_ScoreIsWeightedBlend ==
    risk.kind = "rows" =>
        \A i \in DOMAIN risk.rows :
            LET r == risk.rows[i]
                f == r.incident_frequency_norm
                c == r.total_cost_norm
                s == r.avg_sensitivity_norm
                d == r.avg_detection_norm
                x == r.total_records_norm
                den == f[2] * c[2] * s[2] * d[2] * x[2]
            IN  r.risk_score[1] * den =
                    r.risk_score[2] *
                        ( 20 * f[1] * (den \div f[2])
                        + 30 * c[1] * (den \div c[2])
                        + 20 * s[1] * (den \div s[2])
                        + 15 * d[1] * (den \div d[2])
                        + 15 * x[1] * (den \div x[2]) )

\* a group whose five normalised factors are not all equal
C5_Witness ==
    /\ risk.kind = "rows"
    /\ \E i \in DOMAIN risk.rows :
          /\ risk.rows[i].incident_frequency_norm = RInt(1)
          /\ risk.rows[i].total_cost_norm # RInt(1)
          /\ risk.rows[i].total_cost_norm # RInt(0)
          /\ risk.rows[i].avg_detection_norm # risk.rows[i].total_records_norm

\* C6: the returned rows are a permutation of the (system_name, region)
\* groups present in the store and each row's risk_score is >= that of
\* every later row.
C6_PermutationSortedByScoreDesc ==
    risk.kind = "rows" =>
        /\ {<<risk.rows[i].system_name, risk.rows[i].region>> :
                i \in DOMAIN risk.rows}
              = {<<store[i].system_name, store[i].region>> : i \in DOMAIN store}
        /\ \A i, j \in DOMAIN risk.rows :
              i # j => <<risk.rows[i].system_name, risk.rows[i].region>>
                          # <<risk.rows[j].system_name, risk.rows[j].region>>
        /\ \A i, j \in DOMAIN risk.rows :
              i < j => RLe(risk.rows[j].risk_score, risk.rows[i].risk_score)

C6_Witness ==
    /\ risk.kind = "rows"
    /\ Len(risk.rows) = 3
    /\ risk.rows[1].risk_score # risk.rows[2].risk_score
    /\ risk.rows[2].risk_score # risk.rows[3].risk_score
    /\ risk.rows[1].system_name # risk.grouped[1].system_name

PositionIn(df, row) ==
    CHOOSE i \in DOMAIN df :
        df[i].system_name = row.system_name /\ df[i].region = row.region

\* C7: groups of equal risk_score are output in the order in which the
\* grouping step produced them.
C7_TiesKeepGroupingOrder ==
    risk.kind = "rows" =>
        \A i, j \in DOMAIN risk.rows :
            (i < j /\ risk.rows[i].risk_score = risk.rows[j].risk_score)
                => PositionIn(risk.grouped, risk.rows[i])
                      < PositionIn(risk.grouped, risk.rows[j])

(***************************************************************************)
(* DetectionImpactModel: fit, then estimate_savings, as run_all_models     *)
(* uses it.                                                                *)
(***************************************************************************)
Records == TablesUpTo(MaxRecords)

\* the values a fitted coefficient or intercept takes: negative, zero, positive
Coefficients == {-MaxCoef, 0, MaxCoef}

Improvements == 0..MaxImprovement

Max(a, b) == IF a >= b THEN a ELSE b

\* LinearRegression.fit leaves some coefficients and intercept; an empty
\* frame is rejected by the regressor
Fit(df) ==
    /\ impact.kind = "unfitted"
    /\ Len(df) > 0
    /\ \E c0, c1, c2, b \in Coefficients :
          impact' = [kind |-> "fitted", coef |-> <<c0, c1, c2>>,
                     intercept |-> b]
    /\ UNCHANGED <<store, agg, risk, corr, ctr, predictor,
                 cluster, records, artifact, rng, runs,
                   pipeline, pareto, menu, summary, dash>>

\* mutant: the reduced delays are not clipped at zero
ImprovedRow_NoClip(r, detection_improvement, response_improvement) ==
    [r EXCEPT
        !.detection_delay_days =
            r.detection_delay_days - detection_improvement,
        !.response_time_days =
            r.response_time_days - response_improvement]

\* improved_df: the delays reduced and clipped at zero
ImprovedRow(r, detection_improvement, response_improvement) ==
    [r EXCEPT
        !.detection_delay_days =
            Max(0, r.detection_delay_days - detection_improvement),
        !.response_time_days =
            Max(0, r.response_time_days - response_improvement)]

\* self.model.predict on one row
Predict(coef, intercept, r) ==
    coef[1] * r.detection_delay_days + coef[2] * r.response_time_days
        + coef[3] * r.records_exposed + intercept

\* mutant: predicted costs are summed without the floor at zero
FlooredCost_NoFloor(p) == p

\* np.maximum(0, improved_costs)
FlooredCost(p) == Max(0, p)

RECURSIVE SumSeq(_)
SumSeq(s) == IF s = <<>> THEN 0 ELSE s[1] + SumSeq(Tail(s))

\* (savings / current_cost) * 100 in float64: a zero divisor gives nan or an
\* infinity, not an exception
SavingsPercentage(savings, current_cost) ==
    IF current_cost = 0
    THEN IF savings = 0 THEN "nan" ELSE IF savings > 0 THEN "inf" ELSE "-inf"
    ELSE RMul(Rat(savings, current_cost), RInt(100))

SavingsResult(coef, intercept, df, detection_improvement, response_improvement) ==
    LET current_cost == SumField(df, "estimated_total_cost_usd")
        improved_df ==
            [i \in DOMAIN df |->
                ImprovedRow(df[i], detection_improvement, response_improvement)]
        improved_costs ==
            [i \in DOMAIN df |-> Predict(coef, intercept, improved_df[i])]
        improved_total ==
            SumSeq([i \in DOMAIN df |-> FlooredCost(improved_costs[i])])
        savings == current_cost - improved_total
    IN  [current_total_cost |-> current_cost,
         improved_total_cost |-> improved_total,
         estimated_savings |-> savings,
         savings_percentage |-> SavingsPercentage(savings, current_cost)]

\* predict rejects a frame without rows (ValueError)
EstimateSavings(df, detection_improvement, response_improvement) ==
    /\ impact.kind = "fitted"
    /\ impact' =
          [kind |-> "estimated", coef |-> impact.coef,
           intercept |-> impact.intercept, df |-> df,
           detection_improvement |-> detection_improvement,
           response_improvement |-> response_improvement,
           result |->
              IF Len(df) = 0
              THEN [kind |-> "ValueError"]
              ELSE [kind |-> "savings",
                    value |-> SavingsResult(impact.coef, impact.intercept, df,
                                 detection_improvement, response_improvement)]]
    /\ records' =
          CallerFrame(records, DfCopy(df),
                      [i \in DOMAIN df |->
                          ImprovedRow(df[i], detection_improvement,
                                      response_improvement)])
    /\ UNCHANGED <<store, agg, risk, corr, ctr, predictor,
                 cluster, artifact, rng, runs,
                   pipeline, pareto, menu, summary, dash>>

InitImpact ==
    /\ impact = [kind |-> "unfitted"]
    /\ IdleExcept({"impact"})

NextImpact ==
    \/ /\ impact.kind = "unfitted"
       /\ \E df \in Records : Fit(df)
    \/ /\ impact.kind = "fitted"
       /\ \E df \in Records, di, ri \in Improvements :
             EstimateSavings(df, di, ri)

SpecImpact == InitImpact /\ [][NextImpact]_vars

Estimated == impact.kind = "estimated" /\ impact.result.kind = "savings"

\* C8 as stated: with non-negative improvements, improved_total_cost <=
\* current_total_cost (estimated_savings >= 0) for any coefficients.
C8_ImprovedAtMostCurrent ==
    Estimated =>
        /\ impact.result.value.improved_total_cost
              <= impact.result.value.current_total_cost
        /\ impact.result.value.estimated_savings >= 0

\* C8 as amended: with non-negative improvements, estimated_savings never
\* exceeds current_total_cost (improved_total_cost is floored at zero); it
\* may be negative.
C8_SavingsAtMostCurrent ==
    Estimated =>
        impact.result.value.estimated_savings
            <= impact.result.value.current_total_cost

\* a prediction below zero was floored and savings are all of the current cost
C8_Witness ==
    /\ Estimated
    /\ impact.result.value.current_total_cost > 0
    /\ impact.result.value.estimated_savings
          = impact.result.value.current_total_cost
    /\ \E i \in DOMAIN impact.df :
          Predict(impact.coef, impact.intercept,
                  ImprovedRow(impact.df[i], impact.detection_improvement,
                              impact.response_improvement)) < 0

\* C9: each incident's detection_delay_days and response_time_days are
\* reduced by the improvements and clipped at zero, a cost is predicted per
\* incident from the linear model on the reduced delays, each predicted cost
\* is floored at zero before summing into improved_total_cost (hence >= 0),
\* estimated_savings = current_total_cost - improved_total_cost and
\* savings_percentage = estimated_savings / current_total_cost x 100.
C9_SavingsComputation ==
    Estimated =>
        LET v == impact.result.value
            df == impact.df
            reduced(d, by) == IF d - by < 0 THEN 0 ELSE d - by
            predicted(i) ==
                impact.coef[1] * reduced(df[i].detection_delay_days,
                                         impact.detection_improvement)
                + impact.coef[2] * reduced(df[i].response_time_days,
                                           impact.response_improvement)
                + impact.coef[3] * df[i].records_exposed
                + impact.intercept
            floored(i) == IF predicted(i) < 0 THEN 0 ELSE predicted(i)
        IN  /\ v.current_total_cost
                  = SumSeq([i \in DOMAIN df |-> df[i].estimated_total_cost_usd])
            /\ v.improved_total_cost = SumSeq([i \in DOMAIN df |-> floored(i)])
            /\ v.improved_total_cost >= 0
            /\ v.estimated_savings
                  = v.current_total_cost - v.improved_total_cost
            /\ v.current_total_cost > 0 =>
                  v.savings_percentage[1] * v.current_total_cost
                      = 100 * v.estimated_savings * v.savings_percentage[2]

\* both delays of an incident were clipped, another incident's prediction
\* was floored, and the savings are a non-zero fraction of the current cost
C9_Witness ==
    /\ Estimated
    /\ \E i \in DOMAIN impact.df :
          /\ impact.df[i].detection_delay_days < impact.detection_improvement
          /\ impact.df[i].response_time_days < impact.response_improvement
    /\ \E i \in DOMAIN impact.df :
          Predict(impact.coef, impact.intercept,
                  ImprovedRow(impact.df[i], impact.detection_improvement,
                              impact.response_improvement)) < 0
    /\ impact.result.value.improved_total_cost > 0
    /\ impact.result.value.current_total_cost > 0
    /\ impact.result.value.savings_percentage[2] # 1

(***************************************************************************)
(* BreachCostPredictor.prepare_features                                    *)
(***************************************************************************)
CategoricalCols == <<"system_name", "region", "attack_type">>

\* the order np.unique gives the category values (lexicographic)
Rank(v) ==
    CASE v = "Billing" -> 1
      [] v = "CRM" -> 2
      [] v = "EU" -> 3
      [] v = "HR" -> 4
      [] v = "Malware" -> 5
      [] v = "Phishing" -> 6
      [] v = "US" -> 7

\* LabelEncoder: the code of v is its index in the sorted classes
Code(classes, v) == Cardinality({c \in classes : Rank(c) < Rank(v)})

NoEncoders == [c \in {} |-> {}]

\* mutant: a value the encoder has not seen is added to its classes
EncodeColumn_ExtendOnUnseen(st, df, col) ==
    IF st.error THEN st
    ELSE IF col \notin DOMAIN st.encoders
    THEN [st EXCEPT !.encoders =
              (col :> {df[i][col] : i \in DOMAIN df}) @@ st.encoders]
    ELSE [st EXCEPT !.encoders =
              (col :> (st.encoders[col] \cup {df[i][col] : i \in DOMAIN df}))
                  @@ st.encoders]

\* mutant: the encoder is refitted on every call
EncodeColumn_AlwaysFit(st, df, col) ==
    [st EXCEPT !.encoders =
        (col :> {df[i][col] : i \in DOMAIN df}) @@ st.encoders]

\* one pass of the loop over the categorical columns: fit_transform when
\* the column has no encoder yet, else transform, which raises ValueError
\* on a value that is not among the encoder's classes
EncodeColumn(st, df, col) ==
    IF st.error THEN st
    ELSE IF col \notin DOMAIN st.encoders
    THEN [st EXCEPT !.encoders =
              (col :> {df[i][col] : i \in DOMAIN df}) @@ st.encoders]
    ELSE IF \A i \in DOMAIN df : df[i][col] \in st.encoders[col]
    THEN st
    ELSE [st EXCEPT !.error = TRUE]

EncodeAll(encoders, df) ==
    EncodeColumn(
        EncodeColumn(
            EncodeColumn([encoders |-> encoders, error |-> FALSE],
                         df, CategoricalCols[1]),
            df, CategoricalCols[2]),
        df, CategoricalCols[3])

FeatureRow(encoders, r) ==
    [system_name_encoded |-> Code(encoders["system_name"], r.system_name),
     region_encoded |-> Code(encoders["region"], r.region),
     attack_type_encoded |-> Code(encoders["attack_type"], r.attack_type),
     data_sensitivity_level |-> r.data_sensitivity_level,
     records_exposed |-> r.records_exposed,
     detection_delay_days |-> r.detection_delay_days,
     response_time_days |-> r.response_time_days]

\* the column is encoded without an error: it has no encoder yet, or all
\* its values are among the encoder's classes
Encodes(encoders, df, col) ==
    \/ col \notin DOMAIN encoders
    \/ \A i \in DOMAIN df : df[i][col] \in encoders[col]

\* the columns the loop has written when it ends or raises
WrittenCols(encoders, df) ==
    {CategoricalCols[k] : k \in
        {k \in DOMAIN CategoricalCols :
            \A j \in 1..k : Encodes(encoders, df, CategoricalCols[j])}}

EncodedName(col) ==
    CASE col = "system_name" -> "system_name_encoded"
      [] col = "region" -> "region_encoded"
      [] col = "attack_type" -> "attack_type_encoded"

\* the working frame: df with the columns <col>_encoded written so far
EncodedFrame(before, after, df) ==
    [i \in DOMAIN df |->
        [f \in Schema \cup {EncodedName(col) : col \in WrittenCols(before, df)}
            |-> IF f \in Schema THEN df[i][f]
                ELSE LET col == CHOOSE c \in WrittenCols(before, df) :
                                    EncodedName(c) = f
                     IN  Code(after[col], df[i][col])]]

\* BreachCostPredictor()
FreshPredictor ==
    [kind |-> "predictor", label_encoders |-> NoEncoders,
     before |-> NoEncoders, df |-> <<>>, result |-> None,
     scaler |-> None, model |-> None]

\* before: the encoders as they were when the call began
PrepareFeatures(df) ==
    /\ predictor.kind = "predictor"
    /\ LET st == EncodeAll(predictor.label_encoders, df)
       IN  /\ predictor' =
              [kind |-> "predictor",
               label_encoders |-> st.encoders,
               before |-> predictor.label_encoders,
               df |-> df,
               result |->
                  IF st.error
                  THEN [kind |-> "ValueError"]
                  ELSE [kind |-> "features",
                        rows |-> [i \in DOMAIN df |->
                                    FeatureRow(st.encoders, df[i])]],
               scaler |-> predictor.scaler,
               model |-> predictor.model]
           /\ records' =
                 CallerFrame(records, DfCopy(df),
                             EncodedFrame(predictor.label_encoders,
                                          st.encoders, df))
    /\ UNCHANGED <<store, agg, risk, corr, ctr, impact,
                 cluster, artifact, rng, runs,
                   pipeline, pareto, menu, summary, dash>>

InitPredictor ==
    /\ predictor = FreshPredictor
    /\ IdleExcept({"predictor"})

NextPredictor == \E df \in Records : PrepareFeatures(df)

SpecPredictor == InitPredictor /\ [][NextPredictor]_vars

TablesBuilt(encoders) ==
    \A k \in DOMAIN CategoricalCols : CategoricalCols[k] \in DOMAIN encoders

HasUnseen(encoders, df) ==
    \E k \in DOMAIN CategoricalCols, i \in DOMAIN df :
        df[i][CategoricalCols[k]] \notin encoders[CategoricalCols[k]]

\* C10: once the encoding tables are built, prepare_features on records
\* holding a system_name, region or attack_type absent from its table fails
\* (the encoder's unseen-label ValueError): no feature table is returned and
\* no code is given to the unseen value, the tables staying as they were.
C10_UnseenCategoryFails ==
    (/\ predictor.kind = "predictor"
     /\ predictor.result.kind # "none"
     /\ TablesBuilt(predictor.before)
     /\ HasUnseen(predictor.before, predictor.df))
        => /\ predictor.result.kind = "ValueError"
           /\ predictor.label_encoders = predictor.before

\* a call whose records are known in the first column and unseen in a later
\* one
C10_Witness ==
    /\ predictor.kind = "predictor"
    /\ predictor.result.kind = "ValueError"
    /\ TablesBuilt(predictor.before)
    /\ Len(predictor.df) = 2
    /\ \A i \in DOMAIN predictor.df :
          predictor.df[i].system_name \in predictor.before["system_name"]
    /\ \E i \in DOMAIN predictor.df :
          predictor.df[i].attack_type \notin predictor.before["attack_type"]

\* the codes a table gives its values are distinct
CodesDistinct(classes) ==
    \A v, w \in classes : Code(classes, v) = Code(classes, w) => v = w

\* C24: once a prepare_features call has built the encoding table of a
\* field, every later call on any records, succeeding or failing, leaves the
\* table as it was: the codes a later call returns are those of the table
\* as first built, and distinct values of a table have distinct codes.
C24_BuiltTableNeverChanges ==
    [][\A col \in DOMAIN predictor.label_encoders :
          /\ col \in DOMAIN predictor'.label_encoders
          /\ predictor'.label_encoders[col] = predictor.label_encoders[col]
          /\ CodesDistinct(predictor.label_encoders[col])
          /\ predictor'.result.kind = "features" =>
                \A i \in DOMAIN predictor'.df :
                    predictor'.result.rows[i][EncodedName(col)] =
                        Code(predictor.label_encoders[col],
                             predictor'.df[i][col])]_vars

\* a later call has succeeded on records that hold one of the two values of
\* the system_name table, the value with the greater code
C24_Witness ==
    /\ predictor.kind = "predictor"
    /\ predictor.result.kind = "features"
    /\ TablesBuilt(predictor.before)
    /\ Cardinality(predictor.before["system_name"]) = 2
    /\ Len(predictor.df) = 1
    /\ predictor.result.rows[1].system_name_encoded = 1
    /\ predictor.label_encoders = predictor.before

(***************************************************************************)
(* correlation_analysis: Pearson correlation of five pairs of columns,     *)
(* and the strength main prints for each.  A coefficient is kept as the    *)
(* sign and the square of the real number r and the rounding of the float  *)
(* reported for it.                                                        *)
(***************************************************************************)
CorrelationPairs ==
    [detection_vs_cost |->
        <<"detection_delay_days", "estimated_total_cost_usd">>,
     response_vs_cost |->
        <<"response_time_days", "estimated_total_cost_usd">>,
     records_vs_cost |->
        <<"records_exposed", "estimated_total_cost_usd">>,
     sensitivity_vs_cost |->
        <<"data_sensitivity_level", "estimated_total_cost_usd">>,
     detection_vs_records |->
        <<"detection_delay_days", "records_exposed">>]

\* the columns a pair is taken from
NumericCols ==
    {"data_sensitivity_level", "records_exposed",
     "estimated_total_cost_usd", "detection_delay_days",
     "response_time_days"}

RECURSIVE SumProduct(_, _, _)
SumProduct(rows, f, g) ==
    IF rows = <<>> THEN 0
    ELSE rows[1][f] * rows[1][g] + SumProduct(Tail(rows), f, g)

\* n * sum(x*y) - sum(x) * sum(y): n times the sum of the products of the
\* deviations from the means
CoMoment(rows, f, g) ==
    Len(rows) * SumProduct(rows, f, g)
        - SumField(rows, f) * SumField(rows, g)

NaN == [kind |-> "nan"]

Sign(n) == IF n > 0 THEN 1 ELSE IF n < 0 THEN -1 ELSE 0

\* mutant: a series without variance is given the coefficient 0
Pearson_ZeroForConstant(rows, f, g) ==
    LET c == CoMoment(rows, f, g)
        vx == CoMoment(rows, f, f)
        vy == CoMoment(rows, g, g)
    IN  IF vx = 0 \/ vy = 0
        THEN [kind |-> "r", sign |-> 0, square |-> RInt(0)]
        ELSE [kind |-> "r", sign |-> Sign(c), square |-> Rat(c * c, vx * vy)]

\* The covariance over the product of the standard deviations, as the real
\* number it is: its sign and its square.  0/0 (a series without variance,
\* or fewer than two rows) is NaN: the columns here hold integers, whose
\* sums are exact and whose mean, when the column is constant, is the
\* constant itself, so that every deviation is exactly zero.
Pearson(rows, f, g) ==
    LET c == CoMoment(rows, f, g)
        vx == CoMoment(rows, f, f)
        vy == CoMoment(rows, g, g)
    IN  IF vx = 0 \/ vy = 0 THEN NaN
        ELSE [kind |-> "r", sign |-> Sign(c), square |-> Rat(c * c, vx * vy)]

\* The covariance is divided by one standard deviation and then by the
\* other, each a square root and each division rounded to float64: the
\* quotient is the real number, or a neighbouring float of smaller (-1) or
\* greater (1) magnitude.  For the columns (3, 5) and (3, 5) it is
\* 2 / sqrt(2) / sqrt(2) = 0.9999999999999999.
RoundingErrors == {-1, 0, 1}

\* mutant: the quotient is reported as it was rounded
Clip_Missing(r, e) ==
    IF r.kind = "nan" THEN NaN
    ELSE [kind |-> "r", sign |-> r.sign, square |-> r.square,
          ulps |-> IF r.sign = 0 THEN 0 ELSE e]

\* np.clip(c, -1, 1) of the rounded quotient: the float reported for the
\* real number r, lying ulps floats away from it in magnitude.  A zero
\* covariance divides to zero without error.
Clip(r, e) ==
    IF r.kind = "nan" THEN NaN
    ELSE [kind |-> "r", sign |-> r.sign, square |-> r.square,
          ulps |-> IF r.sign = 0 THEN 0
                   ELSE IF r.square = RInt(1) /\ e > 0 THEN 0
                   ELSE e]

StrongThreshold == Rat(5, 10)

ModerateThreshold == Rat(3, 10)

\* mutant: the comparison is not strict
AbsGreater_OrEqual(value, t) ==
    /\ value.kind = "r"
    /\ \/ ~RLe(value.square, RMul(t, t))
       \/ value.square = RMul(t, t) /\ value.ulps >= 0

\* abs(value) > t for a float t >= 0; every comparison with NaN is false
AbsGreater(value, t) ==
    /\ value.kind = "r"
    /\ \/ ~RLe(value.square, RMul(t, t))
       \/ value.square = RMul(t, t) /\ value.ulps > 0

Strength(value) ==
    IF AbsGreater(value, StrongThreshold) THEN "Strong"
    ELSE IF AbsGreater(value, ModerateThreshold) THEN "Moderate"
         ELSE "Weak"

\* correlation_analysis() and the loop of main over its items
CorrelationAnalysis ==
    /\ \E e \in [DOMAIN CorrelationPairs -> RoundingErrors] :
          LET correlations ==
                  [key \in DOMAIN CorrelationPairs |->
                      Clip(Pearson(store, CorrelationPairs[key][1],
                                   CorrelationPairs[key][2]), e[key])]
          IN  corr' = [kind |-> "correlations",
                       values |-> correlations,
                       strength |-> [key \in DOMAIN CorrelationPairs |->
                                        Strength(correlations[key])]]
    /\ UNCHANGED <<store, agg, risk, ctr, impact, predictor, cluster,
                   records, artifact, rng, runs,
                   pipeline, pareto, menu, summary, dash>>

\* one call of Series.corr on two columns of the frame
SeriesCorr(f, g) ==
    /\ \E e \in RoundingErrors :
          corr' = [kind |-> "corr", x |-> f, y |-> g,
                   value |-> Clip(Pearson(store, f, g), e)]
    /\ UNCHANGED <<store, agg, risk, ctr, impact, predictor, cluster,
                   records, artifact, rng, runs,
                   pipeline, pareto, menu, summary, dash>>

InitCorr ==
    /\ store \in Tables
    /\ IdleExcept({"store"})

NextCorr ==
    \/ /\ corr.kind = "none"
       /\ CorrelationAnalysis
    \/ /\ corr.kind = "none"
       /\ \E f, g \in NumericCols : SeriesCorr(f, g)

SpecCorr == InitCorr /\ [][NextCorr]_vars

\* the column takes two different values in the table
NonConstant(rows, f) ==
    \E i, j \in DOMAIN rows : rows[i][f] # rows[j][f]

WithinUnitInterval(value) ==
    /\ value.sign \in {-1, 0, 1}
    /\ RLe(RInt(0), value.square)
    /\ RLe(value.square, RInt(1))
    /\ value.square = RInt(1) => value.ulps <= 0

ReportedWithinUnitInterval ==
    corr.kind = "correlations" =>
        \A key \in DOMAIN CorrelationPairs :
            corr.values[key].kind = "r" =>
                WithinUnitInterval(corr.values[key])

\* a call of Series.corr of a non-constant column with itself
SelfCorrelation ==
    /\ corr.kind = "corr"
    /\ corr.x = corr.y
    /\ NonConstant(store, corr.x)

C18_StrengthThresholds ==
    corr.kind = "correlations" =>
        \A key \in DOMAIN CorrelationPairs :
            LET value == corr.values[key]
                n == IF value.kind = "r" THEN value.square[1] ELSE 0
                d == IF value.kind = "r" THEN value.square[2] ELSE 1
                u == IF value.kind = "r" THEN value.ulps ELSE 0
                above_strong == 4 * n > d \/ (4 * n = d /\ u > 0)
                above_moderate ==
                    100 * n > 9 * d \/ (100 * n = 9 * d /\ u > 0)
            IN  /\ corr.strength[key] = "Strong" <=> above_strong
                /\ corr.strength[key] = "Moderate"
                      <=> (above_moderate /\ ~above_strong)
                /\ corr.strength[key] = "Weak" <=> ~above_moderate

\* a report with r = 0.5 (Moderate) and a negative Strong coefficient
C18_Witness ==
    /\ corr.kind = "correlations"
    /\ \E key \in DOMAIN CorrelationPairs :
          /\ corr.values[key] = [kind |-> "r", sign |-> 1,
                                 square |-> <<1, 4>>, ulps |-> 0]
          /\ corr.strength[key] = "Moderate"
    /\ \E key \in DOMAIN CorrelationPairs :
          /\ corr.values[key].kind = "r"
          /\ corr.values[key].sign = -1
          /\ corr.strength[key] = "Strong"

(***************************************************************************)
(* cost_time_regression: cost per day of detection delay and of response   *)
(* time, and the savings derived from them.                                *)
(***************************************************************************)
Num(q) == [kind |-> "num", value |-> q]

Inf(s) == [kind |-> "inf", sign |-> s]

\* numpy's float division: a zero divisor gives nan (0/0) or an infinity
\* with a RuntimeWarning; nothing is raised and nothing is substituted
FloatDivide(n, d) ==
    IF d # 0 THEN Num(Rat(n, d))
    ELSE IF n = 0 THEN NaN ELSE Inf(Sign(n))

\* x * q for a rational q >= 0
FloatTimes(x, q) ==
    IF x.kind = "num" THEN Num(RMul(x.value, q))
    ELSE IF x.kind = "nan" \/ q[1] = 0 THEN NaN
         ELSE x

DetectionShare == Rat(1, 10)

ResponseShare == Rat(5, 100)

\* The sums of a frame without rows: its columns come back from the query
\* without a numeric type, and the sum of such a column is the integer 0, so
\* that 0 / 0 raises ZeroDivisionError; a column that kept its numeric type
\* sums to 0.0 and the quotient is nan.
CostTimeRegressionOutcomes(df) ==
    IF df = <<>> THEN {"ZeroDivisionError", "rates"} ELSE {"rates"}

CostTimeRegression ==
    /\ LET df == store
           cost_per_detection_day ==
               FloatDivide(SumField(df, "estimated_total_cost_usd"),
                           SumField(df, "detection_delay_days"))
           cost_per_response_day ==
               FloatDivide(SumField(df, "estimated_total_cost_usd"),
                           SumField(df, "response_time_days"))
           total_incidents == Len(df)
       IN  \E outcome \in CostTimeRegressionOutcomes(df) :
             ctr' =
               IF outcome = "ZeroDivisionError"
               THEN [kind |-> "ZeroDivisionError"]
               ELSE
                [kind |-> "rates",
                 values |->
                   [cost_per_detection_day |-> cost_per_detection_day,
                    cost_per_response_day |-> cost_per_response_day,
                    estimated_savings_1day_faster_detection |->
                        FloatTimes(FloatTimes(cost_per_detection_day,
                                              RInt(total_incidents)),
                                   DetectionShare),
                    estimated_savings_1day_faster_response |->
                        FloatTimes(FloatTimes(cost_per_response_day,
                                              RInt(total_incidents)),
                                   ResponseShare)]]
    /\ UNCHANGED <<store, agg, risk, corr, impact, predictor, cluster,
                   records, artifact, rng, runs,
                   pipeline, pareto, menu, summary, dash>>

InitCtr ==
    /\ store \in Tables
    /\ IdleExcept({"store"})

NextCtr == CostTimeRegression

SpecCtr == InitCtr /\ [][NextCtr]_vars

\* C19: a division whose denominator is zero (the sum of
\* detection_delay_days or of response_time_days) hands the caller a defined
\* default value: every figure cost_time_regression returns is a number.
C19_ZeroDenominatorYieldsDefault ==
    ctr.kind # "none" =>
        /\ ctr.kind = "rates"
        /\ \A key \in DOMAIN ctr.values : ctr.values[key].kind = "num"

(***************************************************************************)
(* RiskClusterAnalyzer: standardize five features, KMeans, profiles and    *)
(* silhouette score.                                                       *)
(***************************************************************************)
MaxClusters == 3

ClusterFeatures ==
    {"data_sensitivity_level", "records_exposed",
     "estimated_total_cost_usd", "detection_delay_days",
     "response_time_days"}

\* the point an incident is clustered as (standardizing a column keeps
\* equal values equal and different values different)
Point(r) == [f \in ClusterFeatures |-> r[f]]

Points(df) == {Point(df[i]) : i \in DOMAIN df}

DistinctIncidents(df) == Cardinality(Range(df))

Min(a, b) == IF a <= b THEN a ELSE b

\* fit_predict: which points share a cluster is left open, but equal points
\* share one, every label is in 0..n_clusters-1, and as many clusters are
\* found as there are distinct points, up to n_clusters
KMeansLabels(df, n_clusters) ==
    {l \in [DOMAIN df -> 0..(n_clusters - 1)] :
        /\ \A i, j \in DOMAIN df : Point(df[i]) = Point(df[j]) => l[i] = l[j]
        /\ Cardinality(Range(l)) = Min(n_clusters, Cardinality(Points(df)))}

\* silhouette_score raises ValueError unless 2 <= labels <= samples - 1
SilhouetteDefined(labels) ==
    /\ 2 <= Cardinality(Range(labels))
    /\ Cardinality(Range(labels)) <= Len(labels) - 1

\* KMeans raises ValueError when n_samples < n_clusters
KMeansAccepts(df, n_clusters) == Len(df) >= n_clusters

LabeledData(df, labels) ==
    [i \in DOMAIN df |->
        [f \in Schema \cup {"cluster"} |->
            IF f = "cluster" THEN labels[i] ELSE df[i][f]]]

\* mutant: a group holds every row of the frame
GroupOf_AllRows(labeled, c) == labeled

\* groupby('cluster'): the rows of the frame that carry label c
GroupOf(labeled, c) == SelectSeq(labeled, LAMBDA r : r.cluster = c)

\* round(2) of a rational q >= 0: the nearest multiple of 1/100, a tie going
\* to the even one
Round2(q) ==
    LET n == q[1] * 100
        lo == n \div q[2]
        rem == n % q[2]
    IN  IF 2 * rem < q[2] THEN Rat(lo, 100)
        ELSE IF 2 * rem > q[2] THEN Rat(lo + 1, 100)
        ELSE IF lo % 2 = 0 THEN Rat(lo, 100)
        ELSE Rat(lo + 1, 100)

\* one row for each label found: the member count and the mean of each
\* column of the frame over the members, rounded to two decimals
ClusterProfiles(labeled) ==
    [c \in {labeled[i].cluster : i \in DOMAIN labeled} |->
        [count |-> Len(GroupOf(labeled, c)),
         mean |-> [f \in ClusterFeatures |->
                     Round2(AvgField(GroupOf(labeled, c), f))]]]

ValueError(at) == [kind |-> "ValueError", at |-> at]

AnalyzeResults(df, n_clusters) ==
    IF df = <<>> THEN {ValueError("fit_transform")}
    ELSE IF ~KMeansAccepts(df, n_clusters) THEN {ValueError("fit_predict")}
    ELSE {IF SilhouetteDefined(clusters)
          THEN [kind |-> "clusters",
                copy |-> DfCopy(df),
                labeled_data |-> LabeledData(df, clusters),
                cluster_profiles |->
                    ClusterProfiles(LabeledData(df, clusters))]
          ELSE [kind |-> "ValueError", at |-> "silhouette_score",
                copy |-> DfCopy(df),
                labeled_data |-> LabeledData(df, clusters)]
          : clusters \in KMeansLabels(df, n_clusters)}

\* RiskClusterAnalyzer(n_clusters)
NewAnalyzer(n_clusters) ==
    /\ cluster' = [kind |-> "analyzer", n_clusters |-> n_clusters]
    /\ UNCHANGED <<store, agg, risk, corr, ctr, impact, predictor, records,
                   artifact, rng, runs,
                   pipeline, pareto, menu, summary, dash>>

\* analyze(df) on an analyzer that has not been fitted
Analyze(df) ==
    /\ cluster.kind = "analyzer"
    /\ \E result \in AnalyzeResults(df, cluster.n_clusters) :
          /\ cluster' = [kind |-> "analyzed",
                         n_clusters |-> cluster.n_clusters,
                         df |-> df,
                         result |-> IF result.kind = "clusters"
                                    THEN [kind |-> "clusters",
                                          labeled_data |-> result.labeled_data,
                                          cluster_profiles |->
                                              result.cluster_profiles]
                                    ELSE ValueError(result.at)]
          /\ records' = IF "copy" \in DOMAIN result
                        THEN CallerFrame(records, result.copy,
                                         result.labeled_data)
                        ELSE records
    /\ UNCHANGED <<store, agg, risk, corr, ctr, impact, predictor, artifact,
                   rng, runs,
                   pipeline, pareto, menu, summary, dash>>

InitCluster ==
    /\ cluster = None
    /\ IdleExcept({"cluster"})

\* four incidents that are four different points
DistinctPointsTable ==
    <<Incident("Billing", "EU", "Phishing", 3, 2, 3, 6, 1, 2, 1),
      Incident("HR", "US", "Malware", 5, 4, 2, 9, 1, 1, 1),
      Incident("HR", "EU", "Phishing", 1, 0, 0, 0, 0, 0, 0),
      Incident("Billing", "EU", "Malware", 4, 1, 3, 3, 2, 0, 0)>>

NextCluster ==
    \/ /\ cluster.kind = "none"
       /\ \E n_clusters \in 1..MaxClusters : NewAnalyzer(n_clusters)
    \/ /\ cluster.kind = "analyzer"
       /\ \E df \in Tables \cup {DistinctPointsTable} : Analyze(df)

SpecCluster == InitCluster /\ [][NextCluster]_vars

\* C13: analyze fails (DegenerateClustering) whenever n_clusters exceeds the
\* number of distinct incidents of the input, and then returns no labels,
\* profiles or score.
C13_MoreClustersThanDistinctIncidentsFails ==
    (cluster.kind = "analyzed"
        /\ cluster.n_clusters > DistinctIncidents(cluster.df))
        => cluster.result.kind = "ValueError"

\* C14: with at least n_clusters distinct incidents in the input, analyze
\* gives every incident one label in 0..n_clusters-1, labeled_data holds the
\* incidents of the input, and n_clusters distinct labels are produced.
C14_EveryIncidentLabelledAllClustersUsed ==
    (cluster.kind = "analyzed"
        /\ DistinctIncidents(cluster.df) >= cluster.n_clusters)
        => /\ cluster.result.kind = "clusters"
           /\ LET labeled == cluster.result.labeled_data
              IN  /\ DOMAIN labeled = DOMAIN cluster.df
                  /\ \A i \in DOMAIN labeled :
                        /\ labeled[i].cluster \in 0..(cluster.n_clusters - 1)
                        /\ \A f \in Schema : labeled[i][f] = cluster.df[i][f]
                  /\ Cardinality({labeled[i].cluster : i \in DOMAIN labeled})
                        = cluster.n_clusters

\* the incidents of the labelled frame that carry label c
Members(labeled, c) == {i \in DOMAIN labeled : labeled[i].cluster = c}

\* the mean of column f over the incidents at the positions in S
MeanOver(df, S, f) ==
    Rat(SumSeq([k \in 1..Cardinality(S) |->
                   df[CHOOSE i \in S :
                          Cardinality({j \in S : j < i}) = k - 1][f]]),
        Cardinality(S))

\* the profile has one row per label produced, and the member counts are the
\* numbers of incidents carrying each label and sum to the number of
\* incidents
ProfileRowsAndCounts(result, df) ==
    LET labeled == result.labeled_data
        profiles == result.cluster_profiles
    IN  /\ DOMAIN profiles = {labeled[i].cluster : i \in DOMAIN labeled}
        /\ \A c \in DOMAIN profiles :
              profiles[c].count = Cardinality(Members(labeled, c))
        /\ SumSeq([k \in 1..Cardinality(DOMAIN profiles) |->
                      profiles[CHOOSE c \in DOMAIN profiles :
                          Cardinality({b \in DOMAIN profiles : b < c}) = k - 1
                      ].count]) = Len(df)

\* C27 as stated: the profile has one row per produced label, each member
\* count is the number of incidents carrying the label, and each reported
\* mean is the mean of the raw feature values of exactly those incidents.
C27_ProfileMeansAreExactMeans ==
    (cluster.kind = "analyzed" /\ cluster.result.kind = "clusters") =>
        /\ ProfileRowsAndCounts(cluster.result, cluster.df)
        /\ \A c \in DOMAIN cluster.result.cluster_profiles :
              \A f \in ClusterFeatures :
                  cluster.result.cluster_profiles[c].mean[f] =
                      MeanOver(cluster.df,
                               Members(cluster.result.labeled_data, c), f)

\* C27 amended: as above, each reported mean being the mean of the raw
\* feature values of the members rounded to two decimals.
C27_ProfileMeansAreRoundedMeans ==
    (cluster.kind = "analyzed" /\ cluster.result.kind = "clusters") =>
        /\ ProfileRowsAndCounts(cluster.result, cluster.df)
        /\ \A c \in DOMAIN cluster.result.cluster_profiles :
              \A f \in ClusterFeatures :
                  cluster.result.cluster_profiles[c].mean[f] =
                      Round2(MeanOver(cluster.df,
                                Members(cluster.result.labeled_data, c), f))

\* a cluster of three incidents whose detection delays sum to 2: the mean
\* 2/3 is reported as 0.67
C27_Witness ==
    /\ cluster.kind = "analyzed"
    /\ cluster.result.kind = "clusters"
    /\ \E c \in DOMAIN cluster.result.cluster_profiles :
          /\ cluster.result.cluster_profiles[c].count = 3
          /\ MeanOver(cluster.df, Members(cluster.result.labeled_data, c),
                      "detection_delay_days") = <<2, 3>>
          /\ cluster.result.cluster_profiles[c].mean["detection_delay_days"]
                = <<67, 100>>

(***************************************************************************)
(* BreachCostPredictor.train and save, as run_all_models calls them: a new *)
(* predictor, train on the stored incidents, then save.  Each run of       *)
(* run_all_models starts with the process-wide random generator in some    *)
(* state; runs keeps what each finished training produced.                 *)
(***************************************************************************)
MaxRuns == 2

MaxRngState == 1

RngStates == 0..MaxRngState

SplitSeed == 42

TestSize == Rat(2, 10)

FeatureCols ==
    {"system_name_encoded", "region_encoded", "attack_type_encoded",
     "data_sensitivity_level", "records_exposed", "detection_delay_days",
     "response_time_days"}

\* ceil of a rational q >= 0
Ceil(q) == (q[1] + q[2] - 1) \div q[2]

NTest(n) == Ceil(RMul(TestSize, RInt(n)))

NTrain(n) == n - NTest(n)

\* mutant: no seed is passed and the process-wide generator is used
SplitRandomState_Global(random_state, global) == global

\* check_random_state: an integer seed makes a generator of its own, which
\* the state of the process-wide generator does not reach
SplitRandomState(random_state, global) == random_state

\* The permutation a generator in the given state draws for n samples.  The
\* generator is a fixed function of its state; a rotation stands for it.
Shuffle(state, n) == [i \in 1..n |-> ((i - 1 + state) % n) + 1]

\* ShuffleSplit: the first n_test of the permutation are the test rows, the
\* next n_train the training rows
TrainTestSplit(n, state) ==
    [test |-> [k \in 1..NTest(n) |-> Shuffle(state, n)[k]],
     train |-> [k \in 1..NTrain(n) |-> Shuffle(state, n)[NTest(n) + k]]]

\* StandardScaler.fit: mean and variance of each column
ScalerFit(X) ==
    [kind |-> "scaler",
     mean |-> [f \in FeatureCols |-> Rat(SumField(X, f), Len(X))],
     var |-> [f \in FeatureCols |-> Rat(CoMoment(X, f, f), Len(X) * Len(X))]]

\* RandomForestRegressor(random_state=42).fit: the fitted forest is a fixed
\* function of its training rows
ForestFit(X_train, y_train) ==
    [kind |-> "forest", X_train |-> X_train, y_train |-> y_train]

\* the forest's prediction lies among its training targets; their mean
\* stands for it
ForestPredict(model, x) == Rat(SumSeq(model.y_train), Len(model.y_train))

RECURSIVE RSum(_)
RSum(s) == IF s = <<>> THEN RInt(0) ELSE RAdd(s[1], RSum(Tail(s)))

SquaredErrors(y_true, y_pred) ==
    [k \in DOMAIN y_true |->
        RMul(RSub(RInt(y_true[k]), y_pred[k]),
             RSub(RInt(y_true[k]), y_pred[k]))]

MeanSquaredError(y_true, y_pred) ==
    RDiv(RSum(SquaredErrors(y_true, y_pred)), RInt(Len(y_true)))

\* r2_score: nan with fewer than two samples; a constant y_true gives 1.0
\* for a perfect prediction and 0.0 otherwise
R2Score(y_true, y_pred) ==
    LET ss_res == RSum(SquaredErrors(y_true, y_pred))
        y_mean == [k \in DOMAIN y_true |->
                      Rat(SumSeq(y_true), Len(y_true))]
        ss_tot == RSum(SquaredErrors(y_true, y_mean))
    IN  IF Len(y_true) < 2 THEN NaN
        ELSE IF ss_tot[1] = 0
        THEN IF ss_res[1] = 0 THEN Num(RInt(1)) ELSE Num(RInt(0))
        ELSE Num(RSub(RInt(1), RDiv(ss_res, ss_tot)))

\* what train(df) leaves in a predictor p and returns
TrainOutcome(p, df, global) ==
    LET st == EncodeAll(p.label_encoders, df)
        X == [i \in DOMAIN df |-> FeatureRow(st.encoders, df[i])]
        y == [i \in DOMAIN df |-> df[i].estimated_total_cost_usd]
        split == TrainTestSplit(Len(df), SplitRandomState(SplitSeed, global))
        X_train == [k \in DOMAIN split.train |-> X[split.train[k]]]
        X_test == [k \in DOMAIN split.test |-> X[split.test[k]]]
        y_train == [k \in DOMAIN split.train |-> y[split.train[k]]]
        y_test == [k \in DOMAIN split.test |-> y[split.test[k]]]
        model == ForestFit(X_train, y_train)
        y_pred == [k \in DOMAIN X_test |-> ForestPredict(model, X_test[k])]
    IN  IF st.error
        THEN [encoders |-> st.encoders, scaler |-> p.scaler,
              model |-> p.model, result |-> ValueError("prepare_features")]
        ELSE IF NTrain(Len(df)) = 0
        THEN [encoders |-> st.encoders, scaler |-> p.scaler,
              model |-> p.model, result |-> ValueError("train_test_split")]
        ELSE [encoders |-> st.encoders,
              scaler |-> ScalerFit(X_train),
              model |-> model,
              result |-> [kind |-> "metrics",
                          train |-> split.train,
                          test |-> split.test,
                          rmse_squared |-> MeanSquaredError(y_test, y_pred),
                          r2 |-> R2Score(y_test, y_pred)]]

\* run_all_models begins: df = get_all_incidents(), BreachCostPredictor()
BeginRun ==
    /\ IF predictor.kind = "none" THEN TRUE
       ELSE predictor.result.kind # "none"
    /\ Len(runs) < MaxRuns
    /\ predictor' = FreshPredictor
    /\ records' = store
    /\ rng' \in RngStates
    /\ UNCHANGED <<store, agg, risk, corr, ctr, impact, cluster, artifact,
                   runs,
                   pipeline, pareto, menu, summary, dash>>

\* cost_predictor.train(df)
Train(df) ==
    /\ predictor.kind = "predictor"
    /\ predictor.result.kind = "none"
    /\ LET out == TrainOutcome(predictor, df, rng)
       IN  /\ predictor' =
                 [kind |-> "predictor",
                  label_encoders |-> out.encoders,
                  before |-> predictor.label_encoders,
                  df |-> df,
                  result |-> out.result,
                  scaler |-> out.scaler,
                  model |-> out.model]
           /\ runs' = Append(runs, [df |-> df, rng |-> rng,
                                    encoders |-> out.encoders,
                                    scaler |-> out.scaler,
                                    model |-> out.model,
                                    result |-> out.result])
           /\ records' =
                 CallerFrame(records, DfCopy(df),
                             EncodedFrame(predictor.label_encoders,
                                          out.encoders, df))
    /\ UNCHANGED <<store, agg, risk, corr, ctr, impact, cluster, artifact,
                   rng,
                   pipeline, pareto, menu, summary, dash>>

\* mutant: save is reached whether or not train has returned
SaveReached_BeforeTrain(p) == p.kind = "predictor"

\* run_all_models reaches cost_predictor.save() when train has returned; an
\* exception in train ends the run
SaveReached(p) == p.kind = "predictor" /\ p.result.kind = "metrics"

\* joblib.dump of model, scaler and encoders into one file
Save ==
    /\ SaveReached(predictor)
    /\ artifact' = [kind |-> "bundle",
                    model |-> predictor.model,
                    scaler |-> predictor.scaler,
                    encoders |-> predictor.label_encoders]
    /\ UNCHANGED <<store, agg, risk, corr, ctr, impact, predictor, cluster,
                   records, rng, runs,
                   pipeline, pareto, menu, summary, dash>>

InitTrain ==
    /\ store \in Records
    /\ rng \in RngStates
    /\ IdleExcept({"store", "rng"})

NextTrain ==
    \/ BeginRun
    \/ Train(records)
    \/ Save

SpecTrain == InitTrain /\ [][NextTrain]_vars

C16_BundleOfOneCompletedTraining ==
    artifact.kind # "none" =>
        /\ DOMAIN artifact = {"kind", "model", "scaler", "encoders"}
        /\ artifact.model.kind = "forest"
        /\ artifact.scaler = ScalerFit(artifact.model.X_train)
        /\ \E i \in DOMAIN runs :
              /\ runs[i].result.kind = "metrics"
              /\ artifact.model = runs[i].model
              /\ artifact.scaler = runs[i].scaler
              /\ artifact.encoders = runs[i].encoders
              /\ \A k \in DOMAIN CategoricalCols :
                    artifact.encoders[CategoricalCols[k]] =
                        {runs[i].df[r][CategoricalCols[k]] :
                            r \in DOMAIN runs[i].df}

\* a bundle on disk from a first run while a second run has failed in train
\* or not yet trained
C16_Witness ==
    /\ artifact.kind = "bundle"
    /\ Len(runs) >= 1
    /\ predictor.kind = "predictor"
    /\ predictor.result.kind = "none"
    /\ predictor.model.kind = "none"

\* C22: train on a record set with fewer than 10 records fails with
\* InsufficientData and produces no fitted model and no rmse/r2 metrics
\* (whatever error is raised is taken for the failure).
C22_FewRecordsFailWithInsufficientData ==
    \A i \in DOMAIN runs :
        Len(runs[i].df) < 10 =>
            /\ runs[i].result.kind # "metrics"
            /\ runs[i].model.kind = "none"

\* the values column col takes in the rows of df at the positions part
ValuesIn(df, part, col) == {df[part[k]][col] : k \in DOMAIN part}

\* C25: in train, the encoding table of each categorical field is built
\* from the distinct values of the training partition only; a value that
\* occurs only in the evaluation partition is not in the table.
C25_TablesBuiltFromTrainingPartition ==
    \A i \in DOMAIN runs :
        runs[i].result.kind = "metrics" =>
            \A k \in DOMAIN CategoricalCols :
                runs[i].encoders[CategoricalCols[k]] =
                    ValuesIn(runs[i].df, runs[i].result.train,
                             CategoricalCols[k])

(***************************************************************************)
(* The six components on one snapshot: the caller holds the frame read     *)
(* from the store (records) and passes it to every call.  The components   *)
(* share nothing but the store and that frame, so a component is used      *)
(* while the caller holds no other component or result, and a query is     *)
(* made while it holds none.                                               *)
(***************************************************************************)
\* BreachCostPredictor()
NewPredictor ==
    /\ predictor.kind = "none"
    /\ predictor' = FreshPredictor
    /\ UNCHANGED <<store, agg, risk, corr, ctr, impact, cluster, records,
                   artifact, rng, runs,
                   pipeline, pareto, menu, summary, dash>>

\* DetectionImpactModel()
NewImpactModel ==
    /\ impact.kind = "none"
    /\ impact' = [kind |-> "unfitted"]
    /\ UNCHANGED <<store, agg, risk, corr, ctr, predictor, cluster, records,
                   artifact, rng, runs,
                   pipeline, pareto, menu, summary, dash>>

\* the components and results the caller holds
Held ==
    {c \in {"agg", "risk", "corr", "predictor", "cluster", "impact"} :
        CASE c = "agg" -> agg.kind # "none"
          [] c = "risk" -> risk.kind # "none"
          [] c = "corr" -> corr.kind # "none"
          [] c = "predictor" -> predictor.kind # "none"
          [] c = "cluster" -> cluster.kind # "none"
          [] c = "impact" -> impact.kind # "none"}

\* the caller lets go of the components and results it holds
Release ==
    /\ Held # {}
    /\ agg' = None
    /\ risk' = None
    /\ corr' = None
    /\ predictor' = None
    /\ cluster' = None
    /\ impact' = None
    /\ UNCHANGED <<store, ctr, records, artifact, rng, runs,
                   pipeline, pareto, menu, summary, dash>>

\* df = get_all_incidents()
InitSnapshot ==
    /\ store \in Records
    /\ records = store
    /\ IdleExcept({"store", "records"})

NextSnapshot ==
    \/ /\ Held = {}
       /\ \E dimension \in Arguments : CostAnalysisByDimension(dimension)
    \/ /\ Held = {}
       /\ RiskScoreCalculation
    \/ /\ Held = {}
       /\ CorrelationAnalysis
    \/ /\ Held \subseteq {"predictor"}
       /\ NewPredictor
    \/ /\ Held = {"predictor"}
       /\ PrepareFeatures(records)
    \/ /\ Held \subseteq {"cluster"}
       /\ cluster.kind = "none"
       /\ \E n_clusters \in 1..MaxClusters : NewAnalyzer(n_clusters)
    \/ /\ Held = {"cluster"}
       /\ Analyze(records)
    \/ /\ Held \subseteq {"impact"}
       /\ NewImpactModel
    \/ /\ Held = {"impact"}
       /\ impact.kind = "unfitted"
       /\ Fit(records)
    \/ /\ Held = {"impact"}
       /\ impact.kind = "fitted"
       /\ \E di, ri \in Improvements : EstimateSavings(records, di, ri)
    \/ Release

SpecSnapshot == InitSnapshot /\ [][NextSnapshot]_vars

\* C20: no call of the aggregation, risk scoring, correlation, cost
\* predictor, cluster analyzer or impact model changes the incident store or
\* the caller's records, columns included.
C20_StoreAndRecordsUnchanged ==
    [][store' = store /\ records' = records]_vars

\* prepare_features has encoded a frame of two incidents, and the caller's
\* frame still has the columns of the schema only
C20_Witness ==
    /\ predictor.kind = "predictor"
    /\ predictor.result.kind = "features"
    /\ Len(predictor.df) = 2
    /\ records = predictor.df
    /\ \A i \in DOMAIN records : DOMAIN records[i] = Schema


(***************************************************************************)
(* Training again after the data file has been edited in one record and    *)
(* loaded again: load_csv_to_db replaces the table by the rows of the      *)
(* file.                                                                   *)
(***************************************************************************)
\* df.to_sql('breach_incidents', conn, if_exists='replace')
LoadCsvToDb(csv) ==
    /\ store' = csv
    /\ UNCHANGED <<agg, risk, corr, ctr, impact, predictor, cluster, records,
                   artifact, rng, runs, pipeline, pareto, menu, summary,
                   dash>>

\* the files that differ from the table in one record
OneRecordEdited(rows) ==
    UNION {{[rows EXCEPT ![i] = r] : r \in IncidentPool \ {rows[i]}} :
              i \in DOMAIN rows}

NextRetrain ==
    \/ BeginRun
    \/ Train(records)
    \/ /\ Len(runs) = 1
       /\ store = runs[1].df
       /\ \E csv \in OneRecordEdited(store) : LoadCsvToDb(csv)

SpecRetrain == InitTrain /\ [][NextRetrain]_vars

\* the partitions of a finished training are disjoint and hold every
\* position of the input once, the evaluation partition ceil(0.2 n) of them
PartitionsCoverOnce(run) ==
    /\ Range(run.result.train) \cap Range(run.result.test) = {}
    /\ Range(run.result.train) \cup Range(run.result.test) = DOMAIN run.df
    /\ Len(run.result.train) + Len(run.result.test) = Len(run.df)
    /\ Len(run.result.test) = NTest(Len(run.df))

\* two trainings whose inputs agree on every record of the training
\* partition
SameTrainingPartition(a, b) ==
    /\ Len(a.df) = Len(b.df)
    /\ a.result.train = b.result.train
    /\ \A k \in DOMAIN a.result.train :
          a.df[a.result.train[k]] = b.df[b.result.train[k]]

\* C26: in train the two partitions are disjoint and together hold every
\* input record once (evaluation about 20%), and the standardization
\* statistics come from the training partition only: changing a record of
\* the evaluation partition never changes the scaler statistics.
C26_EvaluationRecordNeverChangesScaler ==
    /\ \A i \in DOMAIN runs :
          runs[i].result.kind = "metrics" => PartitionsCoverOnce(runs[i])
    /\ \A i, j \in DOMAIN runs :
          (/\ runs[i].result.kind = "metrics"
           /\ runs[j].result.kind = "metrics"
           /\ SameTrainingPartition(runs[i], runs[j]))
              => runs[i].scaler = runs[j].scaler


(***************************************************************************)
(* The Pareto summary of main (and of plot_pareto_analysis): the incidents *)
(* sorted by cost descending, the cumulative share of the total cost, and  *)
(* the first position at which the share is at least 80%.                  *)
(***************************************************************************)
ParetoThreshold == 80

\* sort_values('estimated_total_cost_usd', ascending=False): the orders of
\* the rows in which the cost never rises; rows of equal cost come in an
\* order the sort leaves open
SortedByCostDesc(df) ==
    {p \in Orderings(DOMAIN df) :
        \A i \in 1..(Len(df) - 1) :
            df[p[i]].estimated_total_cost_usd
                >= df[p[i + 1]].estimated_total_cost_usd}

\* cumsum of the cost column
CumulativeCost(costs) == [i \in DOMAIN costs |-> SumSeq(SubSeq(costs, 1, i))]

\* cumulative_cost / total * 100; a zero total gives nan or inf
CumulativePct(cumulative, total) ==
    [i \in DOMAIN cumulative |->
        IF total = 0
        THEN FloatDivide(cumulative[i], total)
        ELSE Num(RMul(Rat(cumulative[i], total), RInt(100)))]

\* mutant: the share has to exceed the threshold
AtLeastThreshold_Strict(pct) ==
    /\ pct.kind = "num"
    /\ ~RLe(pct.value, RInt(ParetoThreshold))

\* cumulative_pct >= 80: false for nan
AtLeastThreshold(pct) ==
    \/ /\ pct.kind = "num"
       /\ RLe(RInt(ParetoThreshold), pct.value)
    \/ /\ pct.kind = "inf"
       /\ pct.sign > 0

\* what the summary computes from the frame sorted in order p
ParetoResult(df, p) ==
    LET costs == [i \in DOMAIN df |-> df[p[i]].estimated_total_cost_usd]
        cumulative == CumulativeCost(costs)
        pct == CumulativePct(cumulative, SumSeq(costs))
        reached == {i \in DOMAIN df : AtLeastThreshold(pct[i])}
    IN  IF reached = {}
        THEN [kind |-> "IndexError"]
        ELSE LET idx_80 == (CHOOSE i \in reached :
                                \A j \in reached : i <= j) - 1
             IN  [kind |-> "pareto",
                  order |-> p,
                  cumulative_cost |-> cumulative,
                  idx_80 |-> idx_80,
                  top |-> idx_80 + 1,
                  pct_incidents |->
                      RMul(Rat(idx_80 + 1, Len(df)), RInt(100))]

ParetoAnalysis ==
    /\ pareto.kind = "none"
    /\ \E p \in SortedByCostDesc(store) : pareto' = ParetoResult(store, p)
    /\ UNCHANGED <<store, agg, risk, corr, ctr, impact, predictor, cluster,
                   records, artifact, rng, runs, pipeline, menu, summary,
                   dash>>

InitPareto ==
    /\ store \in Tables
    /\ IdleExcept({"store"})

NextPareto == ParetoAnalysis

SpecPareto == InitPareto /\ [][NextPareto]_vars

\* the largest total cost any k incidents of df have
TopCost(df, k) ==
    LET sums == {SumSeq([j \in 1..k |->
                            df[CHOOSE i \in S :
                                   Cardinality({h \in S : h < i}) = j - 1
                              ].estimated_total_cost_usd]) :
                    S \in {T \in SUBSET DOMAIN df : Cardinality(T) = k}}
    IN  CHOOSE m \in sums : \A n \in sums : n <= m

\* C23: on a non-empty store of positive total cost the Pareto analysis
\* reports k with 1 <= k <= number of incidents, the k costliest incidents
\* reaching at least 80% of the total cost and the k-1 costliest not.
C23_SmallestTopSetReachingThreshold ==
    (/\ pareto.kind # "none"
     /\ store # <<>>
     /\ SumField(store, "estimated_total_cost_usd") > 0)
        => /\ pareto.kind = "pareto"
           /\ LET k == pareto.top
                  total == SumField(store, "estimated_total_cost_usd")
              IN  /\ 1 <= k
                  /\ k <= Len(store)
                  /\ pareto.cumulative_cost[k] = TopCost(store, k)
                  /\ 100 * TopCost(store, k) >= ParetoThreshold * total
                  /\ 100 * TopCost(store, k - 1) < ParetoThreshold * total

\* three incidents of costs 9, 3 and 3: the two costliest hold exactly 80%
\* of the total, and k = 2
C23_Witness ==
    /\ pareto.kind = "pareto"
    /\ Len(store) = 3
    /\ SumField(store, "estimated_total_cost_usd") = 15
    /\ pareto.top = 2
    /\ pareto.cumulative_cost[2] = 12


(***************************************************************************)
(* generate_executive_summary: totals and means of the stored incidents    *)
(* and the first row of three cost_analysis_by_dimension queries.          *)
(***************************************************************************)
\* the summaries the call may return for the rows of the store: the first
\* row of a query is the group of greatest total_cost
ExecutiveSummaries(rows) ==
    {[kind |-> "summary",
      total_incidents |-> Len(rows),
      total_cost |-> SumField(rows, "estimated_total_cost_usd"),
      total_records_exposed |-> SumField(rows, "records_exposed"),
      avg_cost_per_incident |-> AvgField(rows, "estimated_total_cost_usd"),
      avg_detection_days |-> AvgField(rows, "detection_delay_days"),
      avg_response_days |-> AvgField(rows, "response_time_days"),
      most_costly_system |-> by_system[1].key,
      most_costly_region |-> by_region[1].key,
      most_common_attack |-> by_attack[1].key,
      highest_sensitivity_incidents |->
          Len(SelectSeq(rows, LAMBDA r : r.data_sensitivity_level >= 4)),
      notifications_required |-> SumField(rows, "notification_required")] :
        by_system \in AggregateQuery(rows, "system_name"),
        by_region \in AggregateQuery(rows, "region"),
        by_attack \in AggregateQuery(rows, "attack_type")}

\* on an empty store the queries return no row and iloc[0] raises
GenerateExecutiveSummary ==
    /\ summary.kind = "none"
    /\ IF store = <<>>
       THEN summary' = [kind |-> "IndexError"]
       ELSE \E s \in ExecutiveSummaries(store) : summary' = s
    /\ UNCHANGED <<store, agg, risk, corr, ctr, impact, predictor, cluster,
                   records, artifact, rng, runs, pipeline, pareto, menu,
                   dash>>

InitSummary ==
    /\ store \in Tables
    /\ IdleExcept({"store"})

NextSummary == GenerateExecutiveSummary

SpecSummary == InitSummary /\ [][NextSummary]_vars

\* the number of stored incidents of attack type a
IncidentCount(rows, a) ==
    Len(SelectSeq(rows, LAMBDA r : r.attack_type = a))

\* C29: generate_executive_summary reports as most_common_attack the
\* attack_type that has the largest incident count in the store.
C29_MostCommonAttackHasLargestCount ==
    summary.kind = "summary" =>
        \A i \in DOMAIN store :
            IncidentCount(store, store[i].attack_type)
                <= IncidentCount(store, summary.most_common_attack)


(***************************************************************************)
(* The interactive menu of main: a loop that reads a line, strips it and   *)
(* acts on it.  menu keeps the lines read and what was done.               *)
(***************************************************************************)
MaxInputs == 3

\* the lines typed at the prompt
InputLines == {"1", "2", "3", "4", "5", "", " 1", "3 ", "one"}

\* input(...).strip()
Strip(line) ==
    CASE line = " 1" -> "1"
      [] line = "3 " -> "3"
      [] OTHER -> line

\* mutant: choice 3 launches the dashboard and then makes the presentation
MenuStep_DashboardFirst(choice) ==
    CASE choice = "1" -> [done |-> <<"create_presentation">>, break |-> FALSE]
      [] choice = "2" -> [done |-> <<"launch_dashboard">>, break |-> TRUE]
      [] choice = "3" -> [done |-> <<"launch_dashboard", "create_presentation">>,
                          break |-> TRUE]
      [] choice = "4" -> [done |-> <<>>, break |-> TRUE]
      [] OTHER -> [done |-> <<"invalid_choice">>, break |-> FALSE]

\* one pass of the loop body: what is done for the choice and whether the
\* loop is left
MenuStep(choice) ==
    CASE choice = "1" -> [done |-> <<"create_presentation">>, break |-> FALSE]
      [] choice = "2" -> [done |-> <<"launch_dashboard">>, break |-> TRUE]
      [] choice = "3" -> [done |-> <<"create_presentation", "launch_dashboard">>,
                          break |-> TRUE]
      [] choice = "4" -> [done |-> <<>>, break |-> TRUE]
      [] OTHER -> [done |-> <<"invalid_choice">>, break |-> FALSE]

\* the prompt is answered with a line
EnterChoice(line) ==
    /\ menu.kind = "loop"
    /\ Len(menu.choices) < MaxInputs
    /\ LET step == MenuStep(Strip(line))
       IN  menu' = [kind |-> IF step.break THEN "ended" ELSE "loop",
                    choices |-> Append(menu.choices, Strip(line)),
                    done |-> menu.done \o step.done]
    /\ UNCHANGED <<store, agg, risk, corr, ctr, impact, predictor, cluster,
                   records, artifact, rng, runs, pipeline, pareto, summary,
                   dash>>

InitMenu ==
    /\ menu = [kind |-> "loop", choices |-> <<>>, done |-> <<>>]
    /\ IdleExcept({"menu"})

NextMenu == \E line \in InputLines : EnterChoice(line)

SpecMenu == InitMenu /\ [][NextMenu]_vars

EndingChoices == {"2", "3", "4"}

\* what the claim has done for a sequence of choices
RECURSIVE ClaimedDone(_)
ClaimedDone(choices) ==
    IF choices = <<>> THEN <<>>
    ELSE LET c == choices[Len(choices)]
             before == ClaimedDone(SubSeq(choices, 1, Len(choices) - 1))
         IN  IF c = "1" THEN Append(before, "create_presentation")
             ELSE IF c = "2" THEN Append(before, "launch_dashboard")
             ELSE IF c = "3"
             THEN before \o <<"create_presentation", "launch_dashboard">>
             ELSE IF c = "4" THEN before
             ELSE Append(before, "invalid_choice")

\* C28: the loop ends exactly at the first choice equal to 2, 3 or 4; a 1
\* makes the presentation and prompts again, any other choice only reports
\* an invalid choice and prompts again; on 3 the presentation is made before
\* the dashboard is launched, on 2 only the dashboard is launched, on 4
\* neither is done.
C28_LoopEndsAtFirstEndingChoice ==
    menu.kind # "none" =>
        /\ \A i \in 1..(Len(menu.choices) - 1) :
              menu.choices[i] \notin EndingChoices
        /\ menu.kind = "ended" <=>
              /\ menu.choices # <<>>
              /\ menu.choices[Len(menu.choices)] \in EndingChoices
        /\ menu.done = ClaimedDone(menu.choices)

\* an invalid choice, then 1, then 3
C28_Witness ==
    /\ menu.kind = "ended"
    /\ menu.choices = <<"5", "1", "3">>
    /\ menu.done = <<"invalid_choice", "create_presentation",
                     "create_presentation", "launch_dashboard">>


(***************************************************************************)
(* MissaTechDashboard: the five datasets it holds, loaded one after the    *)
(* other by refresh_data inside one try block, and the layout built from   *)
(* them.  A dataset is kept as the number of the refresh that loaded it    *)
(* and the stored rows it was computed from.                               *)
(***************************************************************************)
MaxRefreshes == 3

Datasets ==
    <<"df", "summary", "system_costs", "risk_scores", "detection_stats">>

\* the data files loaded while the dashboard runs: no record or one record
CsvFiles == {<<>>} \cup {<<r>> : r \in IncidentPool}

\* the load step of a dataset raises on these rows: on an empty table
\* generate_executive_summary takes iloc[0] of a query without rows
LoadRaises(name, rows) == name = "summary" /\ rows = <<>>

\* the datasets whose load step is reached and returns
Loaded(rows) ==
    {Datasets[k] : k \in
        {k \in DOMAIN Datasets :
            \A j \in 1..k : ~LoadRaises(Datasets[j], rows)}}

\* refresh_data: each step assigns its attribute as soon as it returns; the
\* first exception ends the try block and is shown in a message box
RefreshData(held, rows, n) ==
    [name \in Range(Datasets) |->
        IF name \in Loaded(rows)
        THEN [refresh |-> n, of |-> rows]
        ELSE held[name]]

Unset == [refresh |-> 0, of |-> <<>>]

\* launch_dashboard: __init__ calls refresh_data and create_layout, which
\* raises AttributeError when an attribute was never assigned
LaunchDashboard ==
    /\ dash.kind = "none"
    /\ LET data == RefreshData([name \in Range(Datasets) |-> Unset],
                               store, 1)
       IN  dash' = IF \E name \in Range(Datasets) : data[name] = Unset
                   THEN [kind |-> "AttributeError"]
                   ELSE [kind |-> "dashboard", refreshes |-> 1,
                         data |-> data, shown |-> data,
                         boxes |-> <<>>]
    /\ UNCHANGED <<store, agg, risk, corr, ctr, impact, predictor, cluster,
                   records, artifact, rng, runs, pipeline, pareto, menu,
                   summary>>

\* on_refresh: refresh_data, then the layout is rebuilt from the attributes
\* and the success box is shown
OnRefresh ==
    /\ dash.kind = "dashboard"
    /\ dash.refreshes <= MaxRefreshes
    /\ LET n == dash.refreshes + 1
           data == RefreshData(dash.data, store, n)
       IN  dash' = [kind |-> "dashboard", refreshes |-> n,
                    data |-> data, shown |-> data,
                    boxes |-> IF Loaded(store) = Range(Datasets)
                              THEN <<"showinfo">>
                              ELSE <<"showerror", "showinfo">>]
    /\ UNCHANGED <<store, agg, risk, corr, ctr, impact, predictor, cluster,
                   records, artifact, rng, runs, pipeline, pareto, menu,
                   summary>>

InitDash ==
    /\ store \in CsvFiles
    /\ IdleExcept({"store"})

\* the data file is loaded again once the dashboard shows the stored rows
NextDash ==
    \/ LaunchDashboard
    \/ OnRefresh
    \/ /\ dash.kind = "dashboard"
       /\ dash.refreshes <= MaxRefreshes
       /\ dash.data["df"].of = store
       /\ \E csv \in CsvFiles \ {store} : LoadCsvToDb(csv)

SpecDash == InitDash /\ [][NextDash]_vars

\* C30: after any sequence of refreshes, failed ones included, the five
\* datasets the dashboard holds and displays all come from the same
\* refresh, never a mix of newly loaded and older datasets.
C30_DatasetsFromOneRefresh ==
    dash.kind = "dashboard" =>
        \A a, b \in Range(Datasets) :
            /\ dash.data[a].refresh = dash.data[b].refresh
            /\ dash.shown[a].refresh = dash.shown[b].refresh


(***************************************************************************)
(* run_all_models as main calls it (step 10): the cost predictor, the      *)
(* cluster analysis, the detection impact model and the savings estimate   *)
(* one after the other on the stored incidents, with no except clause in   *)
(* run_all_models or in main.  pipeline keeps what the run printed and     *)
(* returned or the exception that left it.                                 *)
(***************************************************************************)
PipelineClusters == 4

DetectionImprovement == 2

ResponseImprovement == 1

\* the five incidents of the pool: four different points in five rows
FullTable ==
    DistinctPointsTable
        \o <<Incident("CRM", "US", "Phishing", 3, 2, 3, 6, 1, 2, 1)>>

PipelineStores == Records \cup {FullTable}

Stages == <<"train", "analyze", "fit", "estimate_savings">>

\* mutant: an exception of a component is caught and its value kept
StageRaises_Swallowed(result) == FALSE

\* the call of a component ends in an exception, which nothing catches
StageRaises(result) ==
    result.kind \notin {"metrics", "clusters", "fitted", "savings"}

\* cluster_analyzer.analyze(df): what the caller receives
PipelineAnalyzeResults(df) ==
    {IF result.kind = "clusters"
     THEN [kind |-> "clusters",
           labeled_data |-> result.labeled_data,
           cluster_profiles |-> result.cluster_profiles]
     ELSE ValueError(result.at) :
        result \in AnalyzeResults(df, PipelineClusters)}

\* impact_model.fit(df)
FitResults(df) ==
    IF Len(df) = 0 THEN {ValueError("fit")}
    ELSE {[kind |-> "fitted", coef |-> <<c0, c1, c2>>, intercept |-> b] :
            c0 \in Coefficients, c1 \in Coefficients, c2 \in Coefficients,
            b \in Coefficients}

\* impact_model.estimate_savings(df, detection_improvement=2,
\* response_improvement=1)
SavingsResults(fitted, df) ==
    IF Len(df) = 0 \/ fitted.kind # "fitted" THEN ValueError("predict")
    ELSE [kind |-> "savings",
          value |-> SavingsResult(fitted.coef, fitted.intercept, df,
                                  DetectionImprovement, ResponseImprovement)]

\* the run is left by the exception of a stage; printed holds the results
\* of the stages before it
Raised(stage, reason, printed, saved) ==
    [kind |-> "raised", stage |-> stage, reason |-> reason,
     printed |-> printed, saved |-> saved, report |-> "none"]

\* the run returns the dictionary of the four results
Returned(train, clusters, fitted, savings, saved) ==
    [kind |-> "returned",
     printed |-> <<train, clusters, fitted, savings>>,
     saved |-> saved,
     results |-> [cost_predictor |-> train, cluster_results |-> clusters,
                  detection_impact |-> fitted, savings_analysis |-> savings],
     report |-> "none"]

\* the bundle cost_predictor.save() writes
Bundle(out) ==
    [kind |-> "bundle", model |-> out.model, scaler |-> out.scaler,
     encoders |-> out.encoders]

\* the ways a run on df can end
RunAllModelsOutcomes(df, global) ==
    LET out == TrainOutcome(FreshPredictor, df, global)
    IN  IF StageRaises(out.result)
        THEN {Raised(Stages[1], out.result, <<>>, None)}
        ELSE UNION {
            IF StageRaises(clusters)
            THEN {Raised(Stages[2], clusters, <<out.result>>, Bundle(out))}
            ELSE UNION {
                IF StageRaises(fitted)
                THEN {Raised(Stages[3], fitted, <<out.result, clusters>>,
                             Bundle(out))}
                ELSE IF StageRaises(SavingsResults(fitted, df))
                THEN {Raised(Stages[4], SavingsResults(fitted, df),
                             <<out.result, clusters, fitted>>, Bundle(out))}
                ELSE {Returned(out.result, clusters, fitted,
                               SavingsResults(fitted, df), Bundle(out))} :
                fitted \in FitResults(df)} :
            clusters \in PipelineAnalyzeResults(df)}

\* ml_results = run_all_models()
RunAllModels ==
    /\ pipeline.kind = "none"
    /\ \E outcome \in RunAllModelsOutcomes(store, rng) :
          /\ pipeline' = outcome
          /\ artifact' = outcome.saved
    /\ records' = store
    /\ UNCHANGED <<store, agg, risk, corr, ctr, impact, predictor, cluster,
                   rng, runs, pareto, menu, summary, dash>>

\* main goes on to step 11 when run_all_models has returned: the findings
\* and recommendations are printed
PrintFindings ==
    /\ pipeline.kind = "returned"
    /\ pipeline.report = "none"
    /\ pipeline' = [pipeline EXCEPT !.report = "printed"]
    /\ UNCHANGED <<store, agg, risk, corr, ctr, impact, predictor, cluster,
                   records, artifact, rng, runs, pareto, menu, summary,
                   dash>>

InitPipeline ==
    /\ store \in PipelineStores
    /\ rng \in RngStates
    /\ IdleExcept({"store", "rng"})

NextPipeline == RunAllModels \/ PrintFindings

SpecPipeline == InitPipeline /\ [][NextPipeline]_vars

\* the result of a stage that has not failed
StageResult(result) ==
    result.kind \in {"metrics", "clusters", "fitted", "savings"}

\* C21: when a component of the pipeline fails, it puts out nothing, the
\* failure reaches the caller with the stage that failed and the reason, the
\* later stages are not run, and no report is made with a zero or empty
\* result in the place of the failed component: what is printed, returned
\* and reported are results of stages that have succeeded, and the report is
\* made only when all four have.
C21_FailureSurfacedNothingSubstituted ==
    pipeline.kind # "none" =>
        /\ \A k \in DOMAIN pipeline.printed : StageResult(pipeline.printed[k])
        /\ pipeline.kind = "raised" =>
              /\ pipeline.stage = Stages[Len(pipeline.printed) + 1]
              /\ pipeline.reason.kind = "ValueError"
              /\ pipeline.report = "none"
              /\ "results" \notin DOMAIN pipeline
        /\ pipeline.kind = "returned" =>
              /\ Len(pipeline.printed) = Len(Stages)
              /\ pipeline.results.cost_predictor.kind = "metrics"
              /\ pipeline.results.cluster_results.kind = "clusters"
              /\ pipeline.results.detection_impact.kind = "fitted"
              /\ pipeline.results.savings_analysis.kind = "savings"
        /\ (~StageResult(TrainOutcome(FreshPredictor, store, rng).result)) =>
              /\ pipeline.kind = "raised"
              /\ pipeline.stage = "train"
              /\ pipeline.reason =
                    TrainOutcome(FreshPredictor, store, rng).result
              /\ artifact = None
        /\ (/\ StageResult(TrainOutcome(FreshPredictor, store, rng).result)
            /\ Len(store) < PipelineClusters) =>
              /\ pipeline.kind = "raised"
              /\ pipeline.stage = "analyze"
              /\ pipeline.printed =
                    <<TrainOutcome(FreshPredictor, store, rng).result>>

\* the cost predictor has been trained and saved and the cluster analysis
\* has failed: the run is left at that stage with KMeans' ValueError
C21_Witness ==
    /\ pipeline.kind = "raised"
    /\ pipeline.stage = "analyze"
    /\ pipeline.reason = ValueError("fit_predict")
    /\ Len(pipeline.printed) = 1
    /\ artifact.kind = "bundle"
    /\ Len(store) = 2

====
